---- MODULE Spec2Model ----
(***************************************************************************)
(* Checkout funnel dashboard (src/app.py): the five warehouse queries, the *)
(* run_query result cache (st.cache_data, ttl = 3600 s) and the render     *)
(* that binds the five results to metrics, charts, tables and the heatmap. *)
(*                                                                         *)
(* Units: a percentage rounded to d decimals is held as an integer number  *)
(* of 10^-d (ROUND(x, 2) = 55.56 is 5556; ROUND(x, 1) = 6.3 is 63).        *)
(***************************************************************************)
EXTENDS Integers, Sequences, FiniteSets, TLC

VARIABLES
    table,      \* the warehouse table CHECKOUT_FUNNEL_V5: a bag, row -> copies
    result,     \* SQL level: the rows the last executed query returned
    ran,        \* SQL level: the name of that query ("" before any)
    view,       \* SQL level: what the presentation layer derived from result
    now,        \* the clock, in seconds
    ticks,      \* number of clock advances so far
    cache,      \* st.cache_data store of run_query: query -> entry
    execs,      \* query -> number of pd.read_sql executions so far
    pc,         \* session -> position of its script run
    qi,         \* session -> index (1..5) of the run_query call in progress
    res,        \* session -> the result pd.read_sql just returned
    df,         \* session -> query -> the frame the script holds
    emitted,    \* session -> the widgets this script run has emitted, in order
    callExecs,  \* session -> pd.read_sql executions of the run_query call in progress
    raisedBy,   \* session -> what raised the exception of this run ("" if none)
    runs,       \* session -> number of script runs started
    executed    \* history: the results pd.read_sql has returned so far

sqlVars == <<table, result, ran, view>>
appVars == <<now, ticks, cache, execs, pc, qi, res, df, emitted, callExecs, raisedBy,
            runs, executed>>
vars == <<table, result, ran, view, now, ticks, cache, execs, pc, qi, res, df,
          emitted, callExecs, raisedBy, runs, executed>>

----------------------------------------------------------------------------
(* Bounds of the model *)

\* largest group size of the 0%-APR input tables
MaxGroup == 16
\* largest number of copies of one row in the aggregation input tables
MaxCount == 2
\* number of clock advances in one behaviour
MaxTicks == 2
\* pd.read_sql executions per query in one behaviour
MaxExec == 3
\* script runs in one behaviour, shared evenly between the sessions
MaxRuns == 2

----------------------------------------------------------------------------
(* SQL values *)

\* SQL NULL (every column of the model is non-negative when present)
NULL == -1
\* a NULL label (the result of a CASE without ELSE when no WHEN matches)
NullLabel == "<NULL>"

IsNull(v) == v = NULL

RECURSIVE BagSum(_, _)
\* SUM(CASE WHEN <cond> THEN 1 ELSE 0 END) over the rows S of bag tbl
BagSum(tbl, S) ==
    IF S = {} THEN 0
    ELSE LET r == CHOOSE x \in S : TRUE
         IN tbl[r] + BagSum(tbl, S \ {r})

RECURSIVE Pow10(_)
Pow10(d) == IF d = 0 THEN 1 ELSE 10 * Pow10(d - 1)

\* ROUND(num * 100.0 / den, d), half away from zero, in units of 10^-d
RoundPct(num, den, d) == (2 * num * 100 * Pow10(d) + den) \div (2 * den)

\* a percentage that reads 0 where there is nothing to divide by
NullIfPctZero(num, den, d) == IF den = 0 THEN 0 ELSE RoundPct(num, den, d)

\* ROUND(num * 100.0 / NULLIF(den, 0), d): NULL when the denominator is 0
NullIfPct(num, den, d) == IF den = 0 THEN NULL ELSE RoundPct(num, den, d)

RECURSIVE SortBy(_, _)
\* ORDER BY: the rows of set S by ascending key[r] (keys are distinct per group)
SortBy(S, key) ==
    IF S = {} THEN << >>
    ELSE LET r == CHOOSE x \in S : \A y \in S : key[x] <= key[y]
         IN <<r>> \o SortBy(S \ {r}, key)

Range(s) == {s[i] : i \in DOMAIN s}

\* WHERE CHECKOUT_CREATED_DT >= DATEADD(DAY, -30, CURRENT_DATE())
InWindow(r) == r.AGE_DAYS <= 30

----------------------------------------------------------------------------
(* Bucketing expressions *)

FicoScoreBucket(f) ==
    IF IsNull(f) THEN "No Score"
    ELSE IF f < 580 THEN "Poor (<580)"
    ELSE IF f >= 580 /\ f < 670 THEN "Fair (580-669)"
    ELSE IF f >= 670 /\ f < 740 THEN "Good (670-739)"
    ELSE IF f >= 740 /\ f < 800 THEN "Very Good (740-799)"
    ELSE IF f >= 800 THEN "Exceptional (800+)"
    ELSE NullLabel

FicoLabels == {"Exceptional (800+)", "Very Good (740-799)", "Good (670-739)",
               "Fair (580-669)", "Poor (<580)", "No Score"}

\* a comparison with NULL is not true: no WHEN matches and there is no ELSE
AovBucket(a) ==
    IF ~IsNull(a) /\ a < 150 THEN "a. <$150"
    ELSE IF ~IsNull(a) /\ a >= 150 /\ a < 500 THEN "b. $150-$500"
    ELSE IF ~IsNull(a) /\ a >= 500 /\ a < 1000 THEN "c. $500-$1000"
    ELSE IF ~IsNull(a) /\ a >= 1000 THEN "d. $1000+"
    ELSE NullLabel

AovLabels == {"a. <$150", "b. $150-$500", "c. $500-$1000", "d. $1000+"}

FicoGroup(f) ==
    IF ~IsNull(f) /\ f >= 740 THEN "High FICO (740+)"
    ELSE IF ~IsNull(f) /\ f >= 670 /\ f < 740 THEN "Good (670-739)"
    ELSE IF ~IsNull(f) /\ f >= 580 /\ f < 670 THEN "Fair (580-669)"
    ELSE IF ~IsNull(f) /\ f < 580 THEN "Poor (<580)"
    ELSE "No Score"

FicoGroupLabels == {"High FICO (740+)", "Good (670-739)", "Fair (580-669)",
                    "Poor (<580)", "No Score"}

MatrixAovBucket(a) ==
    IF ~IsNull(a) /\ a < 150 THEN "<$150"
    ELSE IF ~IsNull(a) /\ a >= 150 /\ a < 500 THEN "$150-$500"
    ELSE IF ~IsNull(a) /\ a >= 500 /\ a < 1000 THEN "$500-$1000"
    ELSE IF ~IsNull(a) /\ a >= 1000 THEN "$1000+"
    ELSE NullLabel

MatrixAovLabels == {"<$150", "$150-$500", "$500-$1000", "$1000+"}

\* COALESCE(CASE WHEN OFFERED_APRi = 0 THEN OFFERED_PLANi_LENGTH ELSE 0 END, 0)
ZeroAprLength(apr, len) ==
    LET c == IF ~IsNull(apr) /\ apr = 0 THEN len ELSE 0
    IN IF IsNull(c) THEN 0 ELSE c

Max2(a, b) == IF a >= b THEN a ELSE b

\* GREATEST(...) of the three offers
LongestZeroApr(r) ==
    Max2(ZeroAprLength(r.OFFERED_APR1, r.OFFERED_PLAN1_LENGTH),
         Max2(ZeroAprLength(r.OFFERED_APR2, r.OFFERED_PLAN2_LENGTH),
              ZeroAprLength(r.OFFERED_APR3, r.OFFERED_PLAN3_LENGTH)))

ZeroAprBucket(r) ==
    LET g == LongestZeroApr(r)
    IN IF g = 0 THEN "a. No 0% APR"
       ELSE IF g <= 6 THEN "b. 0% for 1-6 mo"
       ELSE IF g <= 12 THEN "c. 0% for 7-12 mo"
       ELSE "d. 0% for 13+ mo"

ZeroAprLabels == {"a. No 0% APR", "b. 0% for 1-6 mo", "c. 0% for 7-12 mo",
                  "d. 0% for 13+ mo"}

----------------------------------------------------------------------------
(* The five queries: WHERE, GROUP BY, the aggregates, ORDER BY *)

FICO_DROPOFF_QUERY == "FICO_DROPOFF_QUERY"
TERM_CONFIRM_QUERY == "TERM_CONFIRM_QUERY"
AOV_DROPOFF_QUERY == "AOV_DROPOFF_QUERY"
ZERO_APR_QUERY == "ZERO_APR_QUERY"
FICO_AOV_MATRIX_QUERY == "FICO_AOV_MATRIX_QUERY"

\* the order of the label strings themselves (what ORDER BY 1 would give)
FicoOrderKeyLexical(l) ==
    CASE l = "Exceptional (800+)" -> 1
      [] l = "Fair (580-669)" -> 2
      [] l = "Good (670-739)" -> 3
      [] l = "No Score" -> 4
      [] l = "Poor (<580)" -> 5
      [] l = "Very Good (740-799)" -> 6
      [] OTHER -> 7

\* ORDER BY CASE FICO_SCORE_BUCKET WHEN ... THEN 1 ... 6 END (NULL sorts last)
FicoOrderKey(l) ==
    CASE l = "Exceptional (800+)" -> 1
      [] l = "Very Good (740-799)" -> 2
      [] l = "Good (670-739)" -> 3
      [] l = "Fair (580-669)" -> 4
      [] l = "Poor (<580)" -> 5
      [] l = "No Score" -> 6
      [] OTHER -> 7

\* ORDER BY 1 on the AOV labels: the order of the label strings (NULL sorts last)
AovOrderKey(l) ==
    CASE l = "a. <$150" -> 1
      [] l = "b. $150-$500" -> 2
      [] l = "c. $500-$1000" -> 3
      [] l = "d. $1000+" -> 4
      [] OTHER -> 5

\* ORDER BY 1 on the 0%-APR labels
ZeroAprOrderKey(l) ==
    CASE l = "a. No 0% APR" -> 1
      [] l = "b. 0% for 1-6 mo" -> 2
      [] l = "c. 0% for 7-12 mo" -> 3
      [] l = "d. 0% for 13+ mo" -> 4
      [] OTHER -> 5

\* ORDER BY CASE FICO_GROUP ... END, CASE AOV_BUCKET ... END (NULL sorts last)
MatrixOrderKey(g, a) ==
    LET k1 == CASE g = "High FICO (740+)" -> 1
                [] g = "Good (670-739)" -> 2
                [] g = "Fair (580-669)" -> 3
                [] g = "Poor (<580)" -> 4
                [] OTHER -> 5
        k2 == CASE a = "<$150" -> 1
                [] a = "$150-$500" -> 2
                [] a = "$500-$1000" -> 3
                [] a = "$1000+" -> 4
                [] OTHER -> 5
    IN 10 * k1 + k2

Approved(S) == {r \in S : r.IS_APPROVED = 1}
WithTerm(S) == {r \in S : ~IsNull(r.TERM_LENGTH)}
WithoutTerm(S) == {r \in S : IsNull(r.TERM_LENGTH)}
Confirmed(S) == {r \in S : r.IS_CONFIRMED = 1}

FicoDropoffQuery(tbl) ==
    LET R == {r \in DOMAIN tbl : InWindow(r)}
        G(l) == {r \in R : FicoScoreBucket(r.FICO_SCORE) = l}
        Row(l) ==
            [FICO_SCORE_BUCKET |-> l,
             TOTAL_CHECKOUTS |-> BagSum(tbl, G(l)),
             APPROVED |-> BagSum(tbl, Approved(G(l))),
             TERM_SELECTED |-> BagSum(tbl, WithTerm(Approved(G(l)))),
             DROPPED_OFF |-> BagSum(tbl, WithoutTerm(Approved(G(l)))),
             DROPOFF_PCT |-> NullIfPct(BagSum(tbl, WithoutTerm(Approved(G(l)))),
                                       BagSum(tbl, Approved(G(l))), 2)]
        Rows == {Row(l) : l \in {FicoScoreBucket(r.FICO_SCORE) : r \in R}}
    IN SortBy(Rows, [x \in Rows |-> FicoOrderKey(x.FICO_SCORE_BUCKET)])

TermConfirmQuery(tbl) ==
    LET R == {r \in DOMAIN tbl : InWindow(r)}
        G(l) == {r \in R : FicoScoreBucket(r.FICO_SCORE) = l}
        Row(l) ==
            [FICO_SCORE_BUCKET |-> l,
             WITH_TERM_SELECTED |-> BagSum(tbl, WithTerm(G(l))),
             CONFIRMED_WITH_TERM |-> BagSum(tbl, Confirmed(WithTerm(G(l)))),
             CONFIRM_RATE_WITH_TERM |->
                 NullIfPct(BagSum(tbl, Confirmed(WithTerm(G(l)))),
                           BagSum(tbl, WithTerm(G(l))), 2),
             WITHOUT_TERM_SELECTED |-> BagSum(tbl, WithoutTerm(G(l))),
             CONFIRMED_WITHOUT_TERM |-> BagSum(tbl, Confirmed(WithoutTerm(G(l)))),
             CONFIRM_RATE_WITHOUT_TERM |->
                 NullIfPct(BagSum(tbl, Confirmed(WithoutTerm(G(l)))),
                           BagSum(tbl, WithoutTerm(G(l))), 2)]
        Rows == {Row(l) : l \in {FicoScoreBucket(r.FICO_SCORE) : r \in R}}
    IN SortBy(Rows, [x \in Rows |-> FicoOrderKey(x.FICO_SCORE_BUCKET)])

AovDropoffQuery(tbl) ==
    LET R == {r \in DOMAIN tbl : InWindow(r)}
        G(l) == {r \in R : AovBucket(r.TOTAL_AMOUNT) = l}
        Row(l) ==
            [AOV_BUCKET |-> l,
             APPROVED |-> BagSum(tbl, Approved(G(l))),
             DROPPED_OFF |-> BagSum(tbl, WithoutTerm(Approved(G(l)))),
             DROPOFF_PCT |-> NullIfPct(BagSum(tbl, WithoutTerm(Approved(G(l)))),
                                       BagSum(tbl, Approved(G(l))), 1)]
        Rows == {Row(l) : l \in {AovBucket(r.TOTAL_AMOUNT) : r \in R}}
    IN SortBy(Rows, [x \in Rows |-> AovOrderKey(x.AOV_BUCKET)])

ZeroAprQuery(tbl) ==
    LET R == {r \in DOMAIN tbl :
                 /\ InWindow(r)
                 /\ ~IsNull(r.TOTAL_AMOUNT) /\ r.TOTAL_AMOUNT >= 1000
                 /\ r.IS_APPROVED = 1}
        G(l) == {r \in R : ZeroAprBucket(r) = l}
        Row(l) ==
            [ZERO_APR_BUCKET |-> l,
             TOTAL_APPROVED |-> BagSum(tbl, G(l)),
             COMPLETED |-> BagSum(tbl, WithTerm(G(l))),
             DROPPED_OFF |-> BagSum(tbl, WithoutTerm(G(l))),
             COMPLETION_RATE |-> RoundPct(BagSum(tbl, WithTerm(G(l))),
                                          BagSum(tbl, G(l)), 1),
             DROPOFF_RATE |-> RoundPct(BagSum(tbl, WithoutTerm(G(l))),
                                       BagSum(tbl, G(l)), 1)]
        Rows == {Row(l) : l \in {ZeroAprBucket(r) : r \in R}}
    IN SortBy(Rows, [x \in Rows |-> ZeroAprOrderKey(x.ZERO_APR_BUCKET)])

FicoAovMatrixQuery(tbl) ==
    LET R == {r \in DOMAIN tbl : InWindow(r) /\ ~IsNull(r.FICO_SCORE)}
        G(k) == {r \in R : /\ FicoGroup(r.FICO_SCORE) = k[1]
                           /\ MatrixAovBucket(r.TOTAL_AMOUNT) = k[2]}
        Row(k) ==
            [FICO_GROUP |-> k[1],
             AOV_BUCKET |-> k[2],
             APPROVED |-> BagSum(tbl, Approved(G(k))),
             DROPPED_OFF |-> BagSum(tbl, WithoutTerm(Approved(G(k)))),
             DROPOFF_PCT |-> NullIfPct(BagSum(tbl, WithoutTerm(Approved(G(k)))),
                                       BagSum(tbl, Approved(G(k))), 1)]
        Rows == {Row(k) : k \in {<<FicoGroup(r.FICO_SCORE),
                                    MatrixAovBucket(r.TOTAL_AMOUNT)>> : r \in R}}
    IN SortBy(Rows, [x \in Rows |-> MatrixOrderKey(x.FICO_GROUP, x.AOV_BUCKET)])

Queries == <<FICO_DROPOFF_QUERY, TERM_CONFIRM_QUERY, AOV_DROPOFF_QUERY,
             ZERO_APR_QUERY, FICO_AOV_MATRIX_QUERY>>

QueryNames == Range(Queries)

\* what the warehouse returns for query q over table tbl
Evaluate(q, tbl) ==
    CASE q = FICO_DROPOFF_QUERY -> FicoDropoffQuery(tbl)
      [] q = TERM_CONFIRM_QUERY -> TermConfirmQuery(tbl)
      [] q = AOV_DROPOFF_QUERY -> AovDropoffQuery(tbl)
      [] q = ZERO_APR_QUERY -> ZeroAprQuery(tbl)
      [] q = FICO_AOV_MATRIX_QUERY -> FicoAovMatrixQuery(tbl)

----------------------------------------------------------------------------
(* ViewBinder: what the script derives from each frame *)

\* pandas NaN / None: a NULL cell of a frame, and a cell reindex fills in
NaN == NULL

\* df[cols].rename(columns = {cols[i]: names[i]}) of one row
RenameRow(r, cols, names) ==
    [n \in Range(names) |-> r[cols[CHOOSE i \in DOMAIN names : names[i] = n]]]

RenameRows(d, cols, names) == [i \in DOMAIN d |-> RenameRow(d[i], cols, names)]

\* df[df['FICO_SCORE_BUCKET'] != 'No Score']
DropNoScore(d) == SelectSeq(d, LAMBDA r : r.FICO_SCORE_BUCKET # "No Score")

\* the x / y series px.bar draws, in frame order
BarSeries(d, x, y) == [i \in DOMAIN d |-> [x |-> d[i][x], y |-> d[i][y]]]

\* total_approved, total_dropped, overall_dropoff = round(dropped / approved * 100, 1)
SummaryMetrics(d) ==
    LET approved == BagSum([i \in DOMAIN d |-> d[i].APPROVED], DOMAIN d)
        dropped == BagSum([i \in DOMAIN d |-> d[i].DROPPED_OFF], DOMAIN d)
    IN [total_approved |-> approved,
        term_selected |-> approved - dropped,
        total_dropped |-> dropped,
        overall_dropoff |-> IF approved = 0 THEN NaN
                            ELSE RoundPct(dropped, approved, 1)]

Tab1Chart(d) == BarSeries(DropNoScore(d), "FICO_SCORE_BUCKET", "DROPOFF_PCT")

Tab1Table(d) ==
    RenameRows(d,
        <<"FICO_SCORE_BUCKET", "APPROVED", "TERM_SELECTED", "DROPPED_OFF", "DROPOFF_PCT">>,
        <<"FICO Bucket", "Approved", "Term Selected", "Dropped Off", "Dropoff %">>)

\* melt(id_vars, value_vars): one block of rows per value column, then Type mapped
Tab2Chart(d) ==
    LET f == DropNoScore(d)
        Block(col, type) ==
            [i \in DOMAIN f |-> [FICO_SCORE_BUCKET |-> f[i].FICO_SCORE_BUCKET,
                                 Type |-> type,
                                 Rate |-> f[i][col]]]
    IN Block("CONFIRM_RATE_WITH_TERM", "With Term Selected")
       \o Block("CONFIRM_RATE_WITHOUT_TERM", "Without Term Selected")

Tab2Table(d) ==
    RenameRows(d,
        <<"FICO_SCORE_BUCKET", "WITH_TERM_SELECTED", "CONFIRMED_WITH_TERM",
          "CONFIRM_RATE_WITH_TERM", "WITHOUT_TERM_SELECTED", "CONFIRMED_WITHOUT_TERM",
          "CONFIRM_RATE_WITHOUT_TERM">>,
        <<"FICO Bucket", "With Term", "Confirmed (Term)", "Confirm Rate (Term) %",
          "No Term", "Confirmed (No Term)", "Confirm Rate (No Term) %">>)

Tab3Chart(d) == BarSeries(d, "AOV_BUCKET", "DROPOFF_PCT")

Tab3Table(d) ==
    RenameRows(d, <<"AOV_BUCKET", "APPROVED", "DROPPED_OFF", "DROPOFF_PCT">>,
                  <<"AOV Bucket", "Approved", "Dropped Off", "Dropoff %">>)

Tab4Chart(d) ==
    [i \in DOMAIN d |-> [x |-> d[i].ZERO_APR_BUCKET,
                         y |-> <<d[i].COMPLETION_RATE, d[i].DROPOFF_RATE>>]]

Tab4Table(d) ==
    RenameRows(d,
        <<"ZERO_APR_BUCKET", "TOTAL_APPROVED", "COMPLETED", "DROPPED_OFF",
          "COMPLETION_RATE", "DROPOFF_RATE">>,
        <<"0% APR Term", "Total Approved", "Completed", "Dropped Off",
          "Completion %", "Dropoff %">>)

\* the sort order of the axis labels a pivot produces (string order, NaN last)
LabelSortKey(l) ==
    CASE l = "$1000+" -> 1
      [] l = "$150-$500" -> 2
      [] l = "$500-$1000" -> 3
      [] l = "<$150" -> 4
      [] l = "Fair (580-669)" -> 5
      [] l = "Good (670-739)" -> 6
      [] l = "High FICO (740+)" -> 7
      [] l = "No Score" -> 8
      [] l = "Poor (<580)" -> 9
      [] OTHER -> 10

NoMatrix(e) == [err |-> e, index |-> << >>, columns |-> << >>, cell |-> << >>]

\* df.pivot(index='FICO_GROUP', columns='AOV_BUCKET', values='DROPOFF_PCT')
PivotFrame(d) ==
    LET idx == {d[i].FICO_GROUP : i \in DOMAIN d}
        cols == {d[i].AOV_BUCKET : i \in DOMAIN d}
        At(k) == {i \in DOMAIN d : d[i].FICO_GROUP = k[1] /\ d[i].AOV_BUCKET = k[2]}
    IN IF \E k \in idx \X cols : Cardinality(At(k)) > 1
       THEN NoMatrix("ValueError")
       ELSE [err |-> "",
             index |-> SortBy(idx, [l \in idx |-> LabelSortKey(l)]),
             columns |-> SortBy(cols, [l \in cols |-> LabelSortKey(l)]),
             cell |-> [k \in idx \X cols |->
                          IF At(k) = {} THEN NaN
                          ELSE d[CHOOSE i \in At(k) : TRUE].DROPOFF_PCT]]

\* pivot.reindex(labels): the rows in the order of labels, an absent row all NaN
Reindex(p, labels) ==
    IF p.err # "" THEN p
    ELSE [err |-> "",
          index |-> labels,
          columns |-> p.columns,
          cell |-> [k \in Range(labels) \X Range(p.columns) |->
                       IF k[1] \in Range(p.index) THEN p.cell[k] ELSE NaN]]

\* pivot[labels]: the columns in the order of labels; KeyError if one is absent
SelectColumns(p, labels) ==
    IF p.err # "" THEN p
    ELSE IF ~(Range(labels) \subseteq Range(p.columns)) THEN NoMatrix("KeyError")
    ELSE [err |-> "",
          index |-> p.index,
          columns |-> labels,
          cell |-> [k \in Range(p.index) \X Range(labels) |-> p.cell[k]]]

HeatmapRows == <<"High FICO (740+)", "Good (670-739)", "Fair (580-669)", "Poor (<580)">>
HeatmapColumns == <<"<$150", "$150-$500", "$500-$1000", "$1000+">>

Heatmap(d) == SelectColumns(Reindex(PivotFrame(d), HeatmapRows), HeatmapColumns)

NoView == [kind |-> ""]

\* the views the script derives from the frame of query q
BindView(q, d) ==
    CASE q = FICO_DROPOFF_QUERY ->
            [kind |-> q, metrics |-> SummaryMetrics(d),
             chart |-> Tab1Chart(d), table |-> Tab1Table(d)]
      [] q = TERM_CONFIRM_QUERY ->
            [kind |-> q, chart |-> Tab2Chart(d), table |-> Tab2Table(d)]
      [] q = AOV_DROPOFF_QUERY ->
            [kind |-> q, chart |-> Tab3Chart(d), table |-> Tab3Table(d)]
      [] q = ZERO_APR_QUERY ->
            [kind |-> q, chart |-> Tab4Chart(d), table |-> Tab4Table(d)]
      [] q = FICO_AOV_MATRIX_QUERY ->
            [kind |-> q, heatmap |-> Heatmap(d)]

----------------------------------------------------------------------------
(* Input tables *)

SourceRow(f, a, ap, t, c, age, o) ==
    [FICO_SCORE |-> f, TOTAL_AMOUNT |-> a, IS_APPROVED |-> ap, TERM_LENGTH |-> t,
     IS_CONFIRMED |-> c, AGE_DAYS |-> age,
     OFFERED_APR1 |-> o[1], OFFERED_PLAN1_LENGTH |-> o[2],
     OFFERED_APR2 |-> o[3], OFFERED_PLAN2_LENGTH |-> o[4],
     OFFERED_APR3 |-> o[5], OFFERED_PLAN3_LENGTH |-> o[6]]

NoOffers == <<NULL, NULL, NULL, NULL, NULL, NULL>>

\* offers: none; 0% for 6; 0% with no length and 0% for 12; 0% for 3 and for 24;
\* interest-bearing only
OfferSamples ==
    {NoOffers,
     <<0, 6, NULL, NULL, 10, 12>>,
     <<0, NULL, 0, 12, 15, 36>>,
     <<0, 3, 15, 12, 0, 24>>,
     <<10, 6, 15, 12, 20, 24>>}

\* both sides of every band edge, and NULL
FicoValues == {NULL, 579, 580, 669, 670, 739, 740, 799, 800}
AmountValues == {NULL, 149, 150, 499, 500, 999, 1000}

\* one representative per band
FicoReps == <<800, 700, 600, 500>>
AmountReps == <<100, 300, 700, 2000>>

EmptyTable == [r \in {} |-> 0]

OneRow(r, c) == [x \in {r} |-> c]

TwoRows(r1, c1, r2, c2) ==
    IF r1 = r2 THEN OneRow(r1, c1 + c2)
    ELSE [x \in {r1, r2} \ (IF c2 = 0 THEN {r2} ELSE {}) |->
             IF x = r1 THEN c1 ELSE c2]

\* a table of one row, over every combination of band edges
SingleRowTables ==
    {OneRow(SourceRow(f, a, ap, t, c, 0, o), 1) :
        f \in FicoValues, a \in AmountValues, ap \in {0, 1}, t \in {NULL, 12},
        c \in {0, 1}, o \in OfferSamples}

AggRows ==
    {SourceRow(f, a, ap, t, t \div 12, age, NoOffers) :
        f \in {NULL, 600, 800}, a \in {NULL, 100, 1000}, ap \in {0, 1},
        t \in {NULL, 12}, age \in {30, 31}}

\* two kinds of rows, up to MaxCount copies of each
PairTables ==
    {TwoRows(r1, c1, r2, c2) :
        r1 \in AggRows, r2 \in AggRows, c1 \in 1..MaxCount, c2 \in 0..MaxCount}

\* one approved row per FICO band of a set of bands (the score NULL included)
FicoBandTables ==
    {[r \in {SourceRow(f, 1000, 1, IF f < 700 THEN NULL ELSE 12, 1, 0, NoOffers) :
                 f \in S} |-> 1] :
        S \in SUBSET (Range(FicoReps) \cup {750, NULL})}

\* the rows of cell <<i, j>>: i approved rows without a term, j with one
CellRows(k) ==
    {SourceRow(FicoReps[k[1]], AmountReps[k[2]], 1, t, 1, 0, NoOffers) : t \in {NULL, 12}}

CellTable(K) ==
    [r \in UNION {CellRows(k) : k \in K} |->
        LET k == CHOOSE c \in K : r \in CellRows(c)
        IN IF IsNull(r.TERM_LENGTH) THEN k[1] ELSE k[2]]

\* FICO x AOV tables: every rectangle of cells, and every table missing one cell
MatrixTables ==
    {CellTable(R \X C) : R \in SUBSET (1..4), C \in SUBSET (1..4)}
    \cup {CellTable(((1..4) \X (1..4)) \ {k}) : k \in (1..4) \X (1..4)}

\* one 0%-APR group of c completed and d dropped rows, 1 <= c + d <= MaxGroup
AprTables ==
    {TwoRows(SourceRow(700, 1000, 1, 12, 1, 0, o), c,
             SourceRow(700, 1000, 1, NULL, 0, 0, o), d) :
        o \in OfferSamples,
        c \in 1..MaxGroup, d \in 0..MaxGroup}
    \cup {OneRow(SourceRow(700, 1000, 1, NULL, 0, 0, o), d) :
             o \in OfferSamples, d \in 1..MaxGroup}

Tables == SingleRowTables \cup PairTables \cup FicoBandTables \cup MatrixTables
          \cup {t \in AprTables : BagSum(t, DOMAIN t) <= MaxGroup}

----------------------------------------------------------------------------
(* The application state *)

\* @st.cache_data(ttl=3600)
TTL == 3600

\* a frame pd.read_sql returned: the query, which execution of it, when, the rows
NoResult == [query |-> "", serial |-> 0, at |-> 0, rows |-> << >>]
NoEntry == [present |-> FALSE, value |-> NoResult, ts |-> 0]

FreshUpToTtl(e, t) == e.present /\ t - e.ts <= TTL

FreshBelowTtl(e, t) == e.present /\ t - e.ts < TTL - 1

\* st.cache_data: an entry is served while younger than ttl
Fresh(e, t) == e.present /\ t - e.ts < TTL

StoreEntryPartial(c, q, r, t) ==
    IF c[q].present
    THEN [c EXCEPT ![q].value.serial = r.serial, ![q].ts = t]
    ELSE [c EXCEPT ![q] = [present |-> TRUE, value |-> r, ts |-> t]]

\* st.cache_data writes the returned value and the time of the write as one entry
StoreEntry(c, q, r, t) == [c EXCEPT ![q] = [present |-> TRUE, value |-> r, ts |-> t]]

CacheAfterFailureStored(c, q, t) ==
    [c EXCEPT ![q] = [present |-> TRUE, value |-> NoResult, ts |-> t]]

\* an exception of pd.read_sql leaves run_query before anything is written
CacheAfterFailure(c, q, t) == c

AppInit(S) ==
    /\ now = 0
    /\ ticks = 0
    /\ cache = [q \in QueryNames |-> NoEntry]
    /\ execs = [q \in QueryNames |-> 0]
    /\ pc = [s \in S |-> "idle"]
    /\ qi = [s \in S |-> 0]
    /\ res = [s \in S |-> NoResult]
    /\ df = [s \in S |-> [q \in QueryNames |-> NoResult]]
    /\ emitted = [s \in S |-> << >>]
    /\ callExecs = [s \in S |-> 0]
    /\ raisedBy = [s \in S |-> ""]
    /\ runs = [s \in S |-> 0]
    /\ executed = {}

----------------------------------------------------------------------------
(* The queries and the binder as functions of the table *)

SqlInit ==
    /\ table \in Tables
    /\ result = << >>
    /\ ran = ""
    /\ view = NoView
    /\ AppInit({})

\* the warehouse executes query q
RunQuery(q) ==
    /\ ran' = q
    /\ result' = Evaluate(q, table)
    /\ view' = NoView
    /\ UNCHANGED <<table, appVars>>

\* the script derives the views of the frame it holds
Bind ==
    /\ ran # ""
    /\ view = NoView
    /\ view' = BindView(ran, result)
    /\ UNCHANGED <<table, result, ran, appVars>>

SqlNext ==
    \/ \E q \in QueryNames : RunQuery(q)
    \/ Bind

SpecSql == SqlInit /\ [][SqlNext]_vars

----------------------------------------------------------------------------
(* The script run of a session: five run_query calls, then the widgets *)

\* the warehouse holds orders of every AOV band for one FICO band only, or holds no
\* order of $500 or more
SampleTables == {CellTable({2} \X (1..4)), CellTable({2, 4} \X (1..2))}

\* the clock advances by a second, or by a second less than the ttl
Deltas == {1, TTL - 1}

Query(s) == Queries[qi[s]]

\* where the script goes when run_query returns
Returned(s) ==
    IF qi[s] < Len(Queries)
    THEN /\ pc' = [pc EXCEPT ![s] = "lookup"]
         /\ qi' = [qi EXCEPT ![s] = qi[s] + 1]
    ELSE /\ pc' = [pc EXCEPT ![s] = "render"]
         /\ qi' = qi

Emit(s, widgets) == emitted' = [emitted EXCEPT ![s] = emitted[s] \o widgets]

\* what the script emits between the last run_query and the pivot: the four summary
\* metrics, then the chart and table of tabs 1 to 3
BeforePivot ==
    <<"metric:Total Approved", "metric:Term Selected", "metric:Dropped Off",
      "metric:Overall Dropoff Rate", "chart:tab1", "table:tab1", "chart:tab2",
      "table:tab2", "chart:tab3", "table:tab3">>

AfterPivot == <<"chart:heatmap", "chart:tab4", "table:tab4", "info:key finding">>

\* except Exception as e: st.error(...), st.info(...); then the footer
ExceptHandler == <<"error", "hint", "footer">>

\* the clock advances between script runs: a script run takes no time on the scale
\* of the ttl. The clock starts with the first execution of a query.
Tick ==
    /\ ticks < MaxTicks
    /\ \A s \in DOMAIN pc : pc[s] = "idle"
    /\ \E q \in QueryNames : execs[q] > 0
    /\ \E s \in DOMAIN runs : runs[s] * Cardinality(DOMAIN runs) < MaxRuns
    /\ \E d \in Deltas : now' = now + d
    /\ ticks' = ticks + 1
    /\ UNCHANGED <<sqlVars, cache, execs, pc, qi, res, df, emitted, callExecs,
                   raisedBy, runs, executed>>

\* a script run starts: page config, title, subtitle, then the try block
StartRun(s) ==
    /\ pc[s] = "idle"
    /\ runs[s] * Cardinality(DOMAIN runs) < MaxRuns
    /\ \A r \in DOMAIN runs : r < s => runs[r] > 0
    /\ runs' = [runs EXCEPT ![s] = runs[s] + 1]
    /\ pc' = [pc EXCEPT ![s] = "lookup"]
    /\ qi' = [qi EXCEPT ![s] = 1]
    /\ df' = [df EXCEPT ![s] = [q \in QueryNames |-> NoResult]]
    /\ res' = [res EXCEPT ![s] = NoResult]
    /\ emitted' = [emitted EXCEPT ![s] = <<"title", "subtitle">>]
    /\ callExecs' = [callExecs EXCEPT ![s] = 0]
    /\ raisedBy' = [raisedBy EXCEPT ![s] = ""]
    /\ UNCHANGED <<sqlVars, now, ticks, cache, execs, executed>>

\* run_query(query): the cache is read; a fresh entry is returned at once
Lookup(s) ==
    /\ pc[s] = "lookup"
    /\ callExecs' = [callExecs EXCEPT ![s] = 0]
    /\ IF Fresh(cache[Query(s)], now)
       THEN /\ df' = [df EXCEPT ![s][Query(s)] = cache[Query(s)].value]
            /\ Returned(s)
       ELSE /\ pc' = [pc EXCEPT ![s] = "execute"]
            /\ UNCHANGED <<df, qi>>
    /\ UNCHANGED <<sqlVars, now, ticks, cache, execs, res, emitted, raisedBy, runs,
                   executed>>

\* pd.read_sql(query, conn) returns the rows of the query
ExecuteOk(s) ==
    /\ pc[s] = "execute"
    /\ execs[Query(s)] < MaxExec
    /\ execs' = [execs EXCEPT ![Query(s)] = execs[Query(s)] + 1]
    /\ callExecs' = [callExecs EXCEPT ![s] = callExecs[s] + 1]
    /\ res' = [res EXCEPT ![s] = [query |-> Query(s),
                                  serial |-> execs[Query(s)] + 1,
                                  at |-> now,
                                  rows |-> Evaluate(Query(s), table)]]
    /\ executed' = executed \cup {res'[s]}
    /\ pc' = [pc EXCEPT ![s] = "store"]
    /\ UNCHANGED <<sqlVars, now, ticks, cache, qi, df, emitted, raisedBy, runs>>

\* pd.read_sql(query, conn) raises: the exception leaves run_query and the try block
\* for the except clause
ExecuteFail(s) ==
    /\ pc[s] = "execute"
    /\ execs[Query(s)] < MaxExec
    /\ execs' = [execs EXCEPT ![Query(s)] = execs[Query(s)] + 1]
    /\ callExecs' = [callExecs EXCEPT ![s] = callExecs[s] + 1]
    /\ cache' = CacheAfterFailure(cache, Query(s), now)
    /\ raisedBy' = [raisedBy EXCEPT ![s] = "read_sql"]
    /\ Emit(s, ExceptHandler)
    /\ pc' = [pc EXCEPT ![s] = "idle"]
    /\ UNCHANGED <<sqlVars, now, ticks, qi, res, df, runs, executed>>

\* st.cache_data stores what the function returned, and run_query returns it
Store(s) ==
    /\ pc[s] = "store"
    /\ cache' = StoreEntry(cache, Query(s), res[s], now)
    /\ df' = [df EXCEPT ![s][Query(s)] = res[s]]
    /\ Returned(s)
    /\ UNCHANGED <<sqlVars, now, ticks, execs, res, emitted, callExecs, raisedBy,
                   runs, executed>>

\* the rest of the try block once the five frames are loaded: the widgets in script
\* order; an exception of the pivot goes to the except clause
Render(s) ==
    /\ pc[s] = "render"
    /\ LET h == Heatmap(df[s][FICO_AOV_MATRIX_QUERY].rows)
       IN IF h.err = ""
          THEN /\ Emit(s, BeforePivot \o AfterPivot \o <<"footer">>)
               /\ UNCHANGED raisedBy
          ELSE /\ Emit(s, BeforePivot \o ExceptHandler)
               /\ raisedBy' = [raisedBy EXCEPT ![s] = h.err]
    /\ pc' = [pc EXCEPT ![s] = "idle"]
    /\ UNCHANGED <<sqlVars, now, ticks, cache, execs, qi, res, df, callExecs, runs,
                   executed>>

SqlIdle ==
    /\ table \in SampleTables
    /\ result = << >>
    /\ ran = ""
    /\ view = NoView

Init == SqlIdle /\ AppInit({1})

\* the state an earlier script run left at time 0: every query executed once and stored
AfterFirstRun(S) ==
    LET first == [q \in QueryNames |->
                     [query |-> q, serial |-> 1, at |-> 0, rows |-> Evaluate(q, table)]]
    IN /\ now = 0
       /\ ticks = 0
       /\ cache = [q \in QueryNames |-> [present |-> TRUE, value |-> first[q], ts |-> 0]]
       /\ execs = [q \in QueryNames |-> 1]
       /\ executed = {first[q] : q \in QueryNames}
       /\ pc = [s \in S |-> "idle"]
       /\ qi = [s \in S |-> 0]
       /\ res = [s \in S |-> NoResult]
       /\ df = [s \in S |-> [q \in QueryNames |-> NoResult]]
       /\ emitted = [s \in S |-> << >>]
       /\ callExecs = [s \in S |-> 0]
       /\ raisedBy = [s \in S |-> ""]
       /\ runs = [s \in S |-> 0]

\* two sessions open the page, on an empty cache or on the cache of an earlier run
InitConc == SqlIdle /\ (AppInit({1, 2}) \/ AfterFirstRun({1, 2}))

Sessions == DOMAIN pc

Next ==
    \/ Tick
    \/ \E s \in Sessions : StartRun(s)
    \/ \E s \in Sessions : Lookup(s)
    \/ \E s \in Sessions : ExecuteOk(s)
    \/ \E s \in Sessions : ExecuteFail(s)
    \/ \E s \in Sessions : Store(s)
    \/ \E s \in Sessions : Render(s)

\* one session: renders follow one another
Spec == Init /\ [][Next]_vars

\* two sessions whose script runs interleave
SpecConc == InitConc /\ [][Next]_vars

----------------------------------------------------------------------------
(* Properties *)

Widgets == Range(BeforePivot) \cup Range(AfterPivot)

\* C1: while the entry of a query is younger than the ttl, no call for that query
\* executes it again: the executions of the query stay at the one that produced the
\* entry, no call is waiting on the warehouse for it, and every call made in the
\* window returned the stored result.
C1_FreshEntryServed ==
    \A q \in QueryNames :
        (cache[q].present /\ now - cache[q].ts < TTL) =>
            /\ execs[q] = cache[q].value.serial
            /\ \A s \in Sessions :
                  /\ ~(pc[s] \in {"execute", "store"} /\ Query(s) = q)
                  /\ df[s][q] \in {NoResult, cache[q].value}

\* a second script run, one second before the entries expire, was served from the cache
C1_Witness ==
    \E s \in Sessions :
        /\ runs[s] = 2
        /\ pc[s] = "render"
        /\ callExecs[s] = 0
        /\ \A q \in QueryNames :
              /\ now - cache[q].ts = TTL - 1
              /\ execs[q] = 1
              /\ df[s][q] = cache[q].value

\* C2: the cache changes only when a call stores what it executed, exactly once, and
\* then the entry is the new result with the time of the call, which the call
\* returns; a call that finds an entry as old as the ttl or older goes to the
\* warehouse, and leaves the cache as it is until it stores.
C2_ExpiredEntryReplaced ==
    [][/\ \A q \in QueryNames :
            cache'[q] # cache[q] =>
                \E s \in Sessions :
                    /\ pc[s] = "store" /\ Query(s) = q
                    /\ callExecs[s] = 1
                    /\ res[s] \in executed /\ res[s].serial = execs[q]
                    /\ cache'[q] = [present |-> TRUE, value |-> res[s], ts |-> now]
                    /\ df'[s][q] = res[s]
       /\ \A s \in Sessions :
            (/\ pc[s] = "lookup"
             /\ <<pc'[s], qi'[s]>> # <<pc[s], qi[s]>>
             /\ cache[Query(s)].present
             /\ now - cache[Query(s)].ts >= TTL) =>
                /\ pc'[s] = "execute"
                /\ callExecs'[s] = 0
                /\ df'[s] = df[s]
                /\ cache' = cache]_vars

\* an entry written at time 0 was replaced, at the ttl exactly, by a second execution
C2_Witness ==
    \E s \in Sessions, q \in QueryNames :
        /\ cache[q].present
        /\ cache[q].value.serial = 2
        /\ cache[q].ts = TTL
        /\ now = TTL
        /\ df[s][q] = cache[q].value

\* C3: when pd.read_sql raises, the exception reaches the script (its except clause
\* reports it), the call executed the query once, and the cache is as before: the
\* query has no servable entry, so the next call goes to the warehouse.
C3_FailureNotCached ==
    [][\A s \in Sessions :
          (raisedBy[s] = "" /\ raisedBy'[s] = "read_sql") =>
              /\ pc[s] = "execute"
              /\ callExecs'[s] = 1
              /\ execs'[Query(s)] = execs[Query(s)] + 1
              /\ cache' = cache
              /\ ~(cache'[Query(s)].present /\ now' - cache'[Query(s)].ts < TTL)
              /\ df'[s][Query(s)] = NoResult
              /\ "error" \in Range(emitted'[s])]_vars

\* the refresh of an expired entry failed: the expired entry is still there, unrefreshed
C3_Witness ==
    \E s \in Sessions :
        /\ raisedBy[s] = "read_sql"
        /\ callExecs[s] = 1
        /\ cache[Query(s)].present
        /\ now - cache[Query(s)].ts >= TTL
        /\ execs[Query(s)] = cache[Query(s)].value.serial + 1

\* C4: a finished script run has emitted either the whole view or, after an
\* exception, the error and the hint and none of the metrics, charts and tables.
C4_RenderAllOrNothing ==
    \A s \in Sessions :
        (pc[s] = "idle" /\ runs[s] > 0) =>
            IF raisedBy[s] = ""
            THEN emitted[s] = <<"title", "subtitle">> \o BeforePivot \o AfterPivot
                              \o <<"footer">>
            ELSE /\ Range(emitted[s]) \cap Widgets = {}
                 /\ "error" \in Range(emitted[s])
                 /\ "hint" \in Range(emitted[s])

FicoDisplayOrder ==
    <<"Exceptional (800+)", "Very Good (740-799)", "Good (670-739)", "Fair (580-669)",
      "Poor (<580)", "No Score">>

\* the FICO bands that have a row in the lookback window
FicoBandsPresent ==
    {FicoScoreBucket(r.FICO_SCORE) : r \in {x \in DOMAIN table : InWindow(x)}}

MatrixCell(k) ==
    LET at == {i \in DOMAIN result :
                  result[i].FICO_GROUP = k[1] /\ result[i].AOV_BUCKET = k[2]}
    IN IF at = {} THEN NaN ELSE result[CHOOSE i \in at : TRUE].DROPOFF_PCT

\* C6: the heatmap of every FICO x AOV result over the 4 x 4 labels, whichever of
\* them it has, is there, with the rows High, Good, Fair, Poor and the columns <$150, $150-$500, $500-$1000, $1000+, each cell the
\* DROPOFF_PCT of its row of the result and blank where the result has no row.
C6_HeatmapOfEveryResult ==
    (/\ ran = FICO_AOV_MATRIX_QUERY
     /\ view.kind = FICO_AOV_MATRIX_QUERY
     /\ result # << >>
     /\ \A i \in DOMAIN result :
           /\ result[i].FICO_GROUP \in Range(HeatmapRows)
           /\ result[i].AOV_BUCKET \in Range(HeatmapColumns)) =>
        /\ view.heatmap.err = ""
        /\ view.heatmap.index = HeatmapRows
        /\ view.heatmap.columns = HeatmapColumns
        /\ \A k \in Range(HeatmapRows) \X Range(HeatmapColumns) :
              view.heatmap.cell[k] = MatrixCell(k)

\* C7: the two rates of every group of the 0%-APR result sum to 100.0
C7_RatesSumTo100 ==
    ran = ZERO_APR_QUERY =>
        \A i \in DOMAIN result :
            result[i].COMPLETION_RATE + result[i].DROPOFF_RATE = 1000

\* the rows of the table in the lookback window that fall in the group of result row x
RowsOfGroup(x) ==
    {r \in DOMAIN table :
        /\ InWindow(r)
        /\ CASE ran = FICO_DROPOFF_QUERY \/ ran = TERM_CONFIRM_QUERY ->
                    FicoScoreBucket(r.FICO_SCORE) = x.FICO_SCORE_BUCKET
             [] ran = AOV_DROPOFF_QUERY -> AovBucket(r.TOTAL_AMOUNT) = x.AOV_BUCKET
             [] ran = FICO_AOV_MATRIX_QUERY ->
                    /\ ~IsNull(r.FICO_SCORE)
                    /\ FicoGroup(r.FICO_SCORE) = x.FICO_GROUP
                    /\ MatrixAovBucket(r.TOTAL_AMOUNT) = x.AOV_BUCKET
             [] ran = ZERO_APR_QUERY ->
                    /\ ~IsNull(r.TOTAL_AMOUNT) /\ r.TOTAL_AMOUNT >= 1000
                    /\ r.IS_APPROVED = 1
                    /\ ZeroAprBucket(r) = x.ZERO_APR_BUCKET
             [] OTHER -> FALSE}

\* a percentage is NULL exactly when n, the number of rows it divides by, is 0
NullIffEmpty(pct, n, top) ==
    /\ (n = 0) <=> (pct = NULL)
    /\ (n > 0) => (pct \in 0..top)

\* C8: in every result, a percentage is NULL exactly when its bucket has no row to
\* divide by (approved rows; rows with a term; rows without one; COUNT(*) in the
\* 0%-APR query, which is never 0), and is between 0 and 100 otherwise.
C8_NullWhenNoDenominator ==
    \A i \in DOMAIN result :
        LET x == result[i]
            G == RowsOfGroup(x)
        IN CASE ran = FICO_DROPOFF_QUERY ->
                    NullIffEmpty(x.DROPOFF_PCT, BagSum(table, Approved(G)), 10000)
             [] ran = TERM_CONFIRM_QUERY ->
                    /\ NullIffEmpty(x.CONFIRM_RATE_WITH_TERM,
                                    BagSum(table, WithTerm(G)), 10000)
                    /\ NullIffEmpty(x.CONFIRM_RATE_WITHOUT_TERM,
                                    BagSum(table, WithoutTerm(G)), 10000)
             [] ran = AOV_DROPOFF_QUERY \/ ran = FICO_AOV_MATRIX_QUERY ->
                    NullIffEmpty(x.DROPOFF_PCT, BagSum(table, Approved(G)), 1000)
             [] ran = ZERO_APR_QUERY ->
                    /\ NullIffEmpty(x.COMPLETION_RATE, BagSum(table, G), 1000)
                    /\ NullIffEmpty(x.DROPOFF_RATE, BagSum(table, G), 1000)
             [] OTHER -> TRUE

\* a result with a bucket of no approved row beside a bucket with approved rows
C8_Witness ==
    /\ ran = FICO_DROPOFF_QUERY
    /\ \E i, j \in DOMAIN result :
          /\ result[i].APPROVED = 0 /\ result[i].DROPOFF_PCT = NULL
          /\ result[i].TOTAL_CHECKOUTS > 0
          /\ result[j].APPROVED > 0 /\ result[j].DROPOFF_PCT # NULL

\* C9: every bucket label of every result is one of the labels of its query
C9_BucketLabelsListed ==
    \A i \in DOMAIN result :
        CASE ran = FICO_DROPOFF_QUERY \/ ran = TERM_CONFIRM_QUERY ->
                 result[i].FICO_SCORE_BUCKET \in FicoLabels
          [] ran = AOV_DROPOFF_QUERY -> result[i].AOV_BUCKET \in AovLabels
          [] ran = ZERO_APR_QUERY -> result[i].ZERO_APR_BUCKET \in ZeroAprLabels
          [] ran = FICO_AOV_MATRIX_QUERY ->
                 /\ result[i].FICO_GROUP \in FicoGroupLabels
                 /\ result[i].AOV_BUCKET \in MatrixAovLabels
          [] OTHER -> TRUE

\* C10: whatever the interleaving, the entry of a query is absent or is one whole
\* result that pd.read_sql returned for that query, with a time of writing between
\* the execution and now; every frame a script holds is such a result too.
C10_WholeResultsOnly ==
    /\ \A q \in QueryNames :
          \/ cache[q] = NoEntry
          \/ /\ cache[q].present
             /\ cache[q].value \in executed
             /\ cache[q].value.query = q
             /\ cache[q].value.at <= cache[q].ts
             /\ cache[q].ts <= now
    /\ \A s \in Sessions, q \in QueryNames :
          \/ df[s][q] = NoResult
          \/ df[s][q] \in executed /\ df[s][q].query = q
    /\ \A r \in executed : r.serial \in 1..execs[r.query]

\* both sessions executed the same expired query in the same instant, and hold
\* different results of it
C10_Witness ==
    \E q \in QueryNames :
        /\ execs[q] = 3
        /\ now >= TTL
        /\ cache[q].ts = now
        /\ df[1][q] # NoResult /\ df[2][q] # NoResult
        /\ df[1][q] # df[2][q]
        /\ cache[q].value = df[1][q]
        /\ df[2][q].serial > df[1][q].serial

====
